---- MODULE Spec2Model ----
(***************************************************************************)
(* A model of core/headerchain.go: the header store, the canonical         *)
(* number -> hash mapping, the current head, the heads registry with its   *)
(* eviction and trim, the header and number caches, and the operations     *)
(* Append, SetCurrentHeader, Reset and the read paths.                     *)
(*                                                                         *)
(* A header is identified by its hash.  The hashes are 1..MaxHash, laid    *)
(* out as a binary tree: the parent of h is h \div 2, the genesis header   *)
(* is 1, and a header's number is its depth in the tree.  0 stands for     *)
(* both the zero hash common.Hash{} and the nil *types.Header.             *)
(***************************************************************************)
EXTENDS Integers, Sequences, FiniteSets, TLC

\* ------------------------------------------------------------------ bounds
\* The header universe: hashes 1..MaxHash.
MaxHash == 8
\* The capacity of hc.heads (the program's constant, scaled down).
maxHeadsQueueLimit == 2
\* The number of chain events the feed may carry (caps the successful Appends).
MaxEvents == 3
\* The same, for the specification that follows the accepted Appends deeper.
MaxEventsDeep == 4
\* The readers stop looking headers up once the number cache holds this many.
MaxReads == 2
\* The goroutines that call into the header chain concurrently.
MaxThreads == 2
\* The number of chain events the feed may carry when the calls run concurrently.
MaxEventsConc == 3
\* The header universe of the concurrent callers: hashes 1..MaxHashConc.
MaxHashConc == 4
\* The number of calls the concurrent goroutines start.
MaxCalls == 5

\* --------------------------------------------------------------- constants
Genesis == 1
ZeroHash == 0
NilHeader == 0
\* What (*types.Header)(nil).Hash() yields in a build where it does not panic.
NilHash == -1
\* A genesis hash of another context's chain: no header of this chain has it.
ForeignGenesis == -2
PRIME == 0
REGION == 1
ZONE == 2
\* len(sliceHeaders)
SliceLen == 3

Hashes == 1..MaxHash

\* ------------------------------------------------------------ header fields
\* head.Parent(), header.ParentHash[types.QuaiNetworkContext]
Parent(h) == h \div 2

RECURSIVE Number64(_)
\* header.Number64(), header.Number[types.QuaiNetworkContext].Uint64()
Number64(h) == IF h <= 1 THEN 0 ELSE 1 + Number64(h \div 2)

MaxNumber == Number64(MaxHash)

\* header.Location: the (region, zone) coordinate; the genesis header has none.
Location(h) == IF h = Genesis THEN << >> ELSE << (h % 3) + 1, ((h \div 3) % 3) + 1 >>

\* h.Hash(); of the nil header, in a build where that does not panic, NilHash.
HashOf(h) == IF h = NilHeader THEN NilHash ELSE h

VARIABLES
    feedCap,            \* the number of chain events the feed may carry
    ctx,                \* types.QuaiNetworkContext
    genesisHashes,      \* hc.config.GenesisHashes
    headerDb,           \* headerDb: the hashes whose header record is stored
    numberDb,           \* headerDb: the hashes whose hash -> number record is stored
    canonical,          \* headerDb: the canonical number -> hash mapping
    headBlockHash,      \* headerDb: the head block hash
    bcBlocks,           \* hc.bc: the blocks the chain-body collaborator holds
    currentHeader,      \* hc.currentHeader
    currentHeaderHash,  \* hc.currentHeaderHash
    headerCache,        \* hc.headerCache
    numberCache,        \* hc.numberCache
    heads,              \* hc.heads
    chainFeed,          \* hc.bc.chainFeed: how many events were sent
    crashed,            \* the process has panicked
    last,               \* the last call: its name and what it returned
    headermu,           \* hc.headermu: the goroutine that holds it, 0 when free
    running,            \* hc.running
    procInterrupt,      \* hc.procInterrupt
    headsHashes,        \* headerDb: the heads hashes Stop saved
    pc,                 \* where each goroutine stands in its call
    loc,                \* each goroutine's locals
    calls               \* how many calls the goroutines have started

vars == << feedCap, ctx, genesisHashes, headerDb, numberDb, canonical, headBlockHash, bcBlocks,
           currentHeader, currentHeaderHash, headerCache, numberCache, heads,
           chainFeed, crashed, last, headermu, running, procInterrupt, headsHashes, pc, loc,
           calls >>

\* A caller that runs its calls one after the other leaves these alone in
\* Append, SetCurrentHeader, Reset and the lookups: each call runs from its
\* first line to its return as one step.
procs == << headermu, running, procInterrupt, headsHashes, pc, loc, calls >>

config == << feedCap, ctx, genesisHashes >>

Threads == 1..MaxThreads

\* A goroutine's locals: the call's argument (head or block), SetCurrentHeader's
\* prevHeader, Append's commonHeader, Stop's hashes.
NoLocals == [arg |-> NilHeader, prev |-> NilHeader, common |-> NilHeader, hashes |-> << >>]

\* ------------------------------------------------------------ the read paths
\* The store and the caches a read goes through.
Mem == [hdb |-> headerDb, ndb |-> numberDb, hcache |-> headerCache, ncache |-> numberCache]

\* rawdb.ReadCanonicalHash
ReadCanonicalHash(canon, n) == IF n \in DOMAIN canon THEN canon[n] ELSE ZeroHash

\* A DeleteCanonicalHash that deletes nothing: C23RollbackFrame tells it from
\* DeleteCanonicalHash.
DeleteCanonicalHashNowhere(canon, n) == canon

\* rawdb.DeleteCanonicalHash
DeleteCanonicalHash(canon, n) == [canon EXCEPT ![n] = ZeroHash]

\* A WriteCanonicalHash that writes nothing: C10AppendThenSetHead tells it from
\* WriteCanonicalHash.
WriteCanonicalHashNowhere(canon, hash, n) == canon

\* rawdb.WriteCanonicalHash
WriteCanonicalHash(canon, hash, n) == [canon EXCEPT ![n] = hash]

\* rawdb.WriteHeader: the header record and its hash -> number record
WriteHeader(m, hash) == [m EXCEPT !.hdb = @ \cup {hash}, !.ndb = @ \cup {hash}]

\* A DeleteHeader that leaves the hash -> number record: C18TrimDeletesPath
\* tells it from DeleteHeader.
DeleteHeaderKeepsNumber(m, hash) == [m EXCEPT !.hdb = @ \ {hash}]

\* rawdb.DeleteHeader: both records; the caches are left alone
DeleteHeader(m, hash) == [m EXCEPT !.hdb = @ \ {hash}, !.ndb = @ \ {hash}]

\* hc.GetBlockNumber: found (the number cache, then the store, filling the cache)
GetBlockNumber(m, hash) ==
    IF hash \in m.ncache THEN [found |-> TRUE, m |-> m]
    ELSE IF hash \in m.ndb THEN [found |-> TRUE, m |-> [m EXCEPT !.ncache = @ \cup {hash}]]
    ELSE [found |-> FALSE, m |-> m]

\* hc.GetHeader: the header cache, then the store, filling the cache
GetHeader(m, hash) ==
    IF hash \in m.hcache THEN [h |-> hash, m |-> m]
    ELSE IF hash \in m.hdb THEN [h |-> hash, m |-> [m EXCEPT !.hcache = @ \cup {hash}]]
    ELSE [h |-> NilHeader, m |-> m]

\* hc.GetHeaderByHash
GetHeaderByHash(m, hash) ==
    LET n == GetBlockNumber(m, hash)
    IN  IF ~n.found THEN [h |-> NilHeader, m |-> m] ELSE GetHeader(n.m, hash)

\* hc.HasHeader
HasHeader(m, hash) == hash \in m.ncache \/ hash \in m.hcache \/ hash \in m.hdb

\* hc.GetHeaderByNumber
GetHeaderByNumber(m, canon, n) ==
    LET hash == ReadCanonicalHash(canon, n)
    IN  IF hash = ZeroHash THEN [h |-> NilHeader, m |-> m] ELSE GetHeader(m, hash)

RECURSIVE findCommonHeader(_, _, _)
\* hc.findCommonHeader
findCommonHeader(m, canon, header) ==
    IF header = NilHeader THEN [h |-> NilHeader, m |-> m]
    ELSE LET canonicalHash == ReadCanonicalHash(canon, Number64(header))
         IN  IF canonicalHash = header \/ canonicalHash = genesisHashes[ctx]
             THEN GetHeaderByHash(m, canonicalHash)
             ELSE LET g == GetHeader(m, Parent(header))
                  IN  findCommonHeader(g.m, canon, g.h)

RECURSIVE trim(_, _, _, _)
\* hc.trim: from parent (startHeader) back to commonHeader; st "panic" when the
\* start is nil
trim(m, bc, commonHeader, parent) ==
    IF parent = NilHeader THEN [m |-> m, bc |-> bc, st |-> "panic"]
    ELSE IF parent = commonHeader THEN [m |-> m, bc |-> bc, st |-> "ok"]
    ELSE LET m1 == DeleteHeader(m, parent)
             bc1 == bc \ {parent}
             g == GetHeader(m1, Parent(parent))
         IN  IF g.h = NilHeader THEN [m |-> g.m, bc |-> bc1, st |-> "ok"]
             ELSE trim(g.m, bc1, commonHeader, g.h)

\* ------------------------------------------------------- SetCurrentHeader
\* The walk's state: the two cursors, the hash stack, the canonical mapping as
\* written so far, the store and caches, the returned array, which return the
\* call takes (path: "extend" is line 237, "reorg" line 333), and whether the
\* call is still running normally ("ok") or has panicked.
Panic(s) == [s EXCEPT !.st = "panic"]

EmptySlice == [i \in 1..SliceLen |-> NilHeader]

\* sliceHeaders[h.Location[types.QuaiNetworkContext]-1] is an index in range
SliceIndexOK(h) ==
    /\ Len(Location(h)) >= ctx + 1
    /\ Location(h)[ctx + 1] \in 1..SliceLen

\* A SetSlice that fills every slot: C3FastForward tells it from SetSlice.
SetSliceAll(slice, h) == [i \in 1..SliceLen |-> h]

\* sliceHeaders[h.Location[types.QuaiNetworkContext]-1] = h
SetSlice(slice, h) == [slice EXCEPT ![Location(h)[ctx + 1]] = h]

RECURSIVE collectNew(_, _, _)
\* SetCurrentHeader, lines 250-265: the old head is the common header; walk the
\* new branch back.  np: a nil header's Hash() panics.
collectNew(s, commonHeader, np) ==
    IF (s.new = NilHeader \/ commonHeader = NilHeader) /\ np THEN Panic(s)
    ELSE IF HashOf(s.new) = HashOf(commonHeader) THEN s
    ELSE IF s.new = NilHeader THEN Panic(s)
    ELSE LET g == GetHeader(s.m, Parent(s.new))
             s1 == [s EXCEPT !.new = g.h, !.m = g.m, !.stack = Append(@, g.h)]
         IN  IF g.h = NilHeader /\ np THEN Panic(s1)
             ELSE IF HashOf(g.h) = genesisHashes[0] THEN s1
             ELSE IF g.h = NilHeader THEN s1
             ELSE collectNew(s1, commonHeader, np)

RECURSIVE unwindPrev(_, _, _)
\* SetCurrentHeader, lines 276-292: the new head is the common header; delete
\* the rest of the old branch.
unwindPrev(s, commonHeader, np) ==
    IF (s.prev = NilHeader \/ commonHeader = NilHeader) /\ np THEN Panic(s)
    ELSE IF HashOf(s.prev) = HashOf(commonHeader) THEN s
    ELSE IF s.prev = NilHeader THEN Panic(s)
    ELSE LET g == GetHeader(s.m, Parent(s.prev))
             s1 == [s EXCEPT !.canon = DeleteCanonicalHash(@, Number64(s.prev)),
                             !.prev = g.h, !.m = g.m]
         IN  IF g.h = NilHeader /\ np THEN Panic(s1)
             ELSE IF HashOf(g.h) = genesisHashes[0] THEN s1
             ELSE IF g.h = NilHeader THEN s1
             ELSE unwindPrev(s1, commonHeader, np)

RECURSIVE reorgLoop(_, _, _)
\* SetCurrentHeader, lines 247-315: the two-sided walk
reorgLoop(s, commonHeader, np) ==
    IF (s.prev = NilHeader \/ commonHeader = NilHeader) /\ np THEN Panic(s)
    ELSE IF HashOf(s.prev) = HashOf(commonHeader) THEN collectNew(s, commonHeader, np)
    ELSE IF s.prev = NilHeader THEN Panic(s)
    ELSE LET g == GetHeader(s.m, Parent(s.prev))
             s1 == [s EXCEPT !.canon = DeleteCanonicalHash(@, Number64(s.prev)),
                             !.prev = g.h, !.m = g.m]
         IN  IF (s1.new = NilHeader \/ commonHeader = NilHeader) /\ np THEN Panic(s1)
             ELSE IF HashOf(s1.new) = HashOf(commonHeader) THEN unwindPrev(s1, commonHeader, np)
             ELSE IF s1.new = NilHeader THEN Panic([s1 EXCEPT !.stack = Append(@, NilHeader)])
             ELSE LET gn == GetHeader(s1.m, Parent(s1.new))
                      s2 == [s1 EXCEPT !.stack = Append(@, s1.new), !.new = gn.h, !.m = gn.m]
                  IN  IF s2.prev = NilHeader /\ np THEN Panic(s2)
                      ELSE IF HashOf(s2.prev) = genesisHashes[0] THEN s2
                      ELSE IF s2.prev = NilHeader THEN s2
                      ELSE IF ctx # ZONE
                           THEN IF SliceIndexOK(s2.prev)
                                THEN reorgLoop([s2 EXCEPT !.slice = SetSlice(@, s2.prev)],
                                               commonHeader, np)
                                ELSE Panic(s2)
                           ELSE reorgLoop(s2, commonHeader, np)

RECURSIVE replay(_, _)
\* SetCurrentHeader, lines 321-331: write the hash stack, from its last entry
\* (index i) down to its first
replay(s, i) ==
    IF i = 0 \/ s.st = "panic" THEN s
    ELSE LET h == s.stack[i]
         IN  IF h = NilHeader THEN Panic(s)
             ELSE LET s1 == [s EXCEPT !.canon = WriteCanonicalHash(@, h, Number64(h))]
                  IN  IF ctx # ZONE /\ Len(Location(h)) # 0
                      THEN IF SliceIndexOK(h)
                           THEN replay([s1 EXCEPT !.slice = SetSlice(@, h)], i - 1)
                           ELSE Panic(s1)
                      ELSE replay(s1, i - 1)

\* SetCurrentHeader after lines 219-229 (the head is already swapped): the
\* canonical mapping repair, from the previous head prevHeader
repair(m, canon, prevHeader, head, np) ==
    LET s0 == [prev |-> prevHeader, new |-> head, stack |-> << >>, canon |-> canon,
               m |-> m, slice |-> EmptySlice, path |-> "reorg", st |-> "ok"]
    IN  IF prevHeader = Parent(head)
        THEN LET s1 == [s0 EXCEPT !.canon = WriteCanonicalHash(@, head, Number64(head)),
                                  !.path = "extend"]
             IN  IF ctx # ZONE
                 THEN IF SliceIndexOK(head) THEN [s1 EXCEPT !.slice = SetSlice(@, head)]
                      ELSE Panic(s1)
                 ELSE s1
        ELSE LET fc == findCommonHeader(m, canon, head)
                 r == reorgLoop([s0 EXCEPT !.m = fc.m], fc.h, np)
             IN  replay(r, Len(r.stack))

\* hc.SetCurrentHeader(head)
SetCurrentHeader(head, np) ==
    /\ ~crashed
    /\ LET r == repair(Mem, canonical, currentHeader, head, np)
       IN  /\ currentHeader' = head
           /\ currentHeaderHash' = head
           /\ headBlockHash' = head
           /\ canonical' = r.canon
           /\ headerCache' = r.m.hcache
           /\ numberCache' = r.m.ncache
           /\ crashed' = (r.st = "panic")
           /\ last' = [op |-> "SetCurrentHeader",
                       err |-> IF r.st = "panic" THEN "panic" ELSE "nil",
                       slice |-> r.slice, path |-> r.path]
    /\ UNCHANGED << config, procs, headerDb, numberDb, bcBlocks, heads, chainFeed >>

\* ------------------------------------------------------------------ Append
\* sort.Slice(hc.heads, by number): the sort is not stable, so any arrangement
\* of q in ascending number order may result.
SortedByNumber(q) == \A i \in 1..Len(q) - 1 : Number64(q[i]) <= Number64(q[i + 1])

\* A sort that leaves q as it is: C5HeadsRegistry tells it from SortSlice.
SortSliceNot(q) == { q }

SortSlice(q) ==
    LET n == Len(q)
        perms == { p \in [1..n -> 1..n] : \A i, j \in 1..n : i # j => p[i] # p[j] }
    IN  { r \in { [i \in 1..n |-> q[p[i]]] : p \in perms } : SortedByNumber(r) }

\* What the collaborators answer to an Append: the consensus verifier rejects
\* ("verify"), the chain-body collaborator finds the block not appendable
\* ("appendable"), its Append fails ("body"), or all accept ("nil").  The
\* batch write of the header is taken to succeed, as every write to the store.
Verdicts == { "nil", "verify", "appendable", "body" }

\* An Appendable that writes the header before it validates: C8RejectionFrame
\* tells it from Appendable.
AppendableWrites(m, block, verdict) ==
    LET g == GetHeader(WriteHeader(m, block), Parent(block))
    IN  [m |-> g.m,
         err |-> IF g.h = NilHeader \/ verdict = "verify" THEN "verify"
                 ELSE IF verdict = "appendable" THEN "appendable"
                 ELSE "nil"]

\* hc.Appendable: the consensus verifier looks the parent up through the chain
\* view (hc.GetHeader) and rejects a header whose parent is unknown; it and the
\* chain-body collaborator may reject for reasons of their own (verdict).
Appendable(m, block, verdict) ==
    LET g == GetHeader(m, Parent(block))
    IN  [m |-> g.m,
         err |-> IF g.h = NilHeader \/ verdict = "verify" THEN "verify"
                 ELSE IF verdict = "appendable" THEN "appendable"
                 ELSE "nil"]

\* Append, lines 180-194: the eviction when the registry is at capacity.
\* err "nil head": findCommonHeader returned nil; st "panic": trim dereferenced
\* a nil entry.
evict(m, bc, canon, q) ==
    IF Len(q) = maxHeadsQueueLimit
    THEN LET fc == findCommonHeader(m, canon, q[1])
         IN  IF fc.h = NilHeader
             THEN [m |-> fc.m, bc |-> bc, heads |-> q, err |-> "nil head", st |-> "ok"]
             ELSE LET t == trim(fc.m, bc, fc.h, q[1])
                  IN  IF t.st = "panic"
                      THEN [m |-> t.m, bc |-> t.bc, heads |-> q, err |-> "panic", st |-> "panic"]
                      ELSE [m |-> t.m, bc |-> t.bc, heads |-> Tail(q), err |-> "nil", st |-> "ok"]
    ELSE [m |-> m, bc |-> bc, heads |-> q, err |-> "nil", st |-> "ok"]

\* Append, lines 196-201, after the eviction ev: the registries the insertion
\* and the sort may leave
enqueue(ev, block) ==
    IF ev.err = "nil" THEN SortSlice(Append(ev.heads, block)) ELSE { ev.heads }

\* hc.Append(block); verdict is what the collaborators answer
AppendCall(block, verdict) ==
    /\ ~crashed
    /\ LET a == Appendable(Mem, block, verdict)
       IN  IF a.err # "nil"
           THEN /\ headerCache' = a.m.hcache
                /\ numberCache' = a.m.ncache
                /\ headerDb' = a.m.hdb
                /\ numberDb' = a.m.ndb
                /\ last' = [op |-> "Append", err |-> a.err, slice |-> EmptySlice, path |-> ""]
                /\ UNCHANGED << bcBlocks, heads, chainFeed, crashed >>
           ELSE LET m1 == WriteHeader(a.m, block)
                IN  IF verdict = "body"
                    THEN LET m2 == DeleteHeader(m1, block)
                         IN  /\ headerDb' = m2.hdb
                             /\ numberDb' = m2.ndb
                             /\ headerCache' = m2.hcache
                             /\ numberCache' = m2.ncache
                             /\ last' = [op |-> "Append", err |-> "body",
                                         slice |-> EmptySlice, path |-> ""]
                             /\ UNCHANGED << bcBlocks, heads, chainFeed, crashed >>
                    ELSE /\ chainFeed < feedCap
                         /\ LET gc == evict(m1, bcBlocks \cup {block}, canonical, heads)
                            IN  /\ headerDb' = gc.m.hdb
                                /\ numberDb' = gc.m.ndb
                                /\ headerCache' = gc.m.hcache
                                /\ numberCache' = gc.m.ncache
                                /\ bcBlocks' = gc.bc
                                /\ chainFeed' = chainFeed + 1
                                /\ heads' \in enqueue(gc, block)
                                /\ crashed' = (gc.st = "panic")
                                /\ last' = [op |-> "Append", err |-> gc.err,
                                            slice |-> EmptySlice, path |-> ""]
    /\ UNCHANGED << config, procs, canonical, headBlockHash, currentHeader, currentHeaderHash >>

\* ------------------------------------------------------------------- Reset
RECURSIVE trimHeads(_, _, _, _)
\* ResetWithGenesisBlock, lines 349-351: trim every registered head, from
\* hc.heads[i] on, back to the genesis header
trimHeads(m, bc, q, i) ==
    IF i > Len(q) THEN [m |-> m, bc |-> bc, st |-> "ok"]
    ELSE LET t == trim(m, bc, Genesis, q[i])
         IN  IF t.st = "panic" THEN t ELSE trimHeads(t.m, t.bc, q, i + 1)

\* hc.Reset()
Reset ==
    /\ ~crashed
    /\ LET t == trimHeads(Mem, bcBlocks, heads, 1)
       IN  /\ headerDb' = t.m.hdb
           /\ numberDb' = t.m.ndb
           /\ headerCache' = t.m.hcache
           /\ numberCache' = t.m.ncache
           /\ bcBlocks' = t.bc
           /\ crashed' = (t.st = "panic")
           /\ last' = [op |-> "Reset",
                       err |-> IF t.st = "panic" THEN "panic" ELSE "nil",
                       slice |-> EmptySlice, path |-> ""]
    /\ UNCHANGED << config, procs, canonical, headBlockHash, currentHeader,
                    currentHeaderHash, heads, chainFeed >>

\* --------------------------------------------------------------- shutdown
\* hc.StopInsert
StopInsert ==
    /\ ~crashed
    /\ procInterrupt' = 1
    /\ UNCHANGED << config, headerDb, numberDb, canonical, headBlockHash, bcBlocks,
                    currentHeader, currentHeaderHash, headerCache, numberCache, heads,
                    chainFeed, crashed, last, headermu, running, headsHashes, pc, loc, calls >>

\* hc.insertStopped
insertStopped == procInterrupt = 1

\* hc.Stop, run from its first line to its return: the first call saves the
\* registry's hashes and the head block hash and stops insertion, a later one
\* returns at line 424.
Stop ==
    /\ ~crashed
    /\ running = 0
    /\ running' = 1
    /\ headsHashes' = heads
    /\ headBlockHash' = currentHeader
    /\ procInterrupt' = 1
    /\ UNCHANGED << config, headerDb, numberDb, canonical, bcBlocks, currentHeader,
                    currentHeaderHash, headerCache, numberCache, heads, chainFeed, crashed,
                    last, headermu, pc, loc, calls >>

\* ---------------------------------------------------------------- restart
RECURSIVE loadHeads(_, _, _, _)
\* loadLastState, lines 411-415: one hc.GetHeaderByHash per saved hash, from
\* the i-th on; a hash that is not found leaves a nil entry
loadHeads(m, hashes, i, q) ==
    IF i > Len(hashes) THEN [m |-> m, heads |-> q]
    ELSE LET g == GetHeaderByHash(m, hashes[i])
         IN  loadHeads(g.m, hashes, i + 1, Append(q, g.h))

\* NewHeaderChain over a store some chain has left: the caches start empty, the
\* genesis header is looked up by number (line 125; without it the constructor
\* gives no chain), and loadLastState reads the head block hash and the heads
\* hashes.  When the head is not found nothing is stored in the current-head
\* cell and hc.CurrentHeader(), line 408, panics.
NewHeaderChain(hdb, ndb, canon, headHash, hashes) ==
    LET m0 == [hdb |-> hdb, ndb |-> ndb, hcache |-> {}, ncache |-> {}]
        g == GetHeaderByNumber(m0, canon, 0)
        c == IF headHash # ZeroHash THEN GetHeaderByHash(g.m, headHash)
             ELSE [h |-> NilHeader, m |-> g.m]
        l == loadHeads(c.m, hashes, 1, << >>)
    IN  IF g.h = NilHeader
        THEN [st |-> "no genesis", currentHeader |-> NilHeader, heads |-> << >>, m |-> g.m]
        ELSE IF c.h = NilHeader
        THEN [st |-> "panic", currentHeader |-> NilHeader, heads |-> << >>, m |-> c.m]
        ELSE [st |-> "ok", currentHeader |-> c.h, heads |-> l.heads, m |-> l.m]

\* ------------------------------------------------------- concurrent callers
\* Each goroutine runs one call at a time, a step at a time; the steps of
\* different goroutines interleave.
Goto(t, label) == pc' = [pc EXCEPT ![t] = label]

Return(t) == pc' = [pc EXCEPT ![t] = "idle"] /\ loc' = [loc EXCEPT ![t] = NoLocals]

\* SetCurrentHeader, line 219: prevHeader := hc.CurrentHeader().  No lock is taken.
SetHeadLoad(t, head) ==
    /\ ~crashed /\ pc[t] = "idle"
    /\ calls < MaxCalls
    /\ calls' = calls + 1
    /\ loc' = [loc EXCEPT ![t] = [NoLocals EXCEPT !.arg = head, !.prev = currentHeader]]
    /\ Goto(t, "store")
    /\ UNCHANGED << config, procInterrupt, headerDb, numberDb, canonical, headBlockHash, bcBlocks,
                    currentHeader, currentHeaderHash, headerCache, numberCache, heads,
                    chainFeed, crashed, last, headermu, running, headsHashes >>

\* SetCurrentHeader, lines 224-229: the head is swapped and persisted
SetHeadStore(t) ==
    /\ ~crashed /\ pc[t] = "store"
    /\ currentHeader' = loc[t].arg
    /\ currentHeaderHash' = loc[t].arg
    /\ headBlockHash' = loc[t].arg
    /\ Goto(t, "repair")
    /\ UNCHANGED << config, procInterrupt, calls, headerDb, numberDb, canonical, bcBlocks, headerCache,
                    numberCache, heads, chainFeed, crashed, last, headermu, running,
                    headsHashes, loc >>

\* SetCurrentHeader, lines 232-333: the canonical mapping is repaired from the
\* prevHeader read at line 219
SetHeadRepair(t, np) ==
    /\ ~crashed /\ pc[t] = "repair"
    /\ LET r == repair(Mem, canonical, loc[t].prev, loc[t].arg, np)
       IN  /\ canonical' = r.canon
           /\ headerCache' = r.m.hcache
           /\ numberCache' = r.m.ncache
           /\ crashed' = (r.st = "panic")
           /\ last' = [op |-> "SetCurrentHeader",
                       err |-> IF r.st = "panic" THEN "panic" ELSE "nil",
                       slice |-> r.slice, path |-> r.path]
    /\ Return(t)
    /\ UNCHANGED << config, procInterrupt, calls, headerDb, numberDb, headBlockHash, bcBlocks, currentHeader,
                    currentHeaderHash, heads, chainFeed, headermu, running, headsHashes >>

\* Append, line 145: hc.headermu.Lock().  No Append is started once the feed
\* carries feedCap events.
AppendLock(t, block) ==
    /\ ~crashed /\ pc[t] = "idle"
    /\ calls < MaxCalls
    /\ chainFeed < feedCap
    /\ calls' = calls + 1
    /\ headermu = 0
    /\ headermu' = t
    /\ loc' = [loc EXCEPT ![t] = [NoLocals EXCEPT !.arg = block]]
    /\ Goto(t, "write")
    /\ UNCHANGED << config, procInterrupt, headerDb, numberDb, canonical, headBlockHash, bcBlocks,
                    currentHeader, currentHeaderHash, headerCache, numberCache, heads,
                    chainFeed, crashed, last, running, headsHashes >>

\* Append, lines 148-170: the validation, the header write, the body append
\* (accepted) and the chain event; a rejected block returns at line 152
AppendWrite(t) ==
    /\ ~crashed /\ pc[t] = "write"
    /\ LET block == loc[t].arg
           a == Appendable(Mem, block, "nil")
       IN  IF a.err # "nil"
           THEN /\ headerDb' = a.m.hdb
                /\ numberDb' = a.m.ndb
                /\ headerCache' = a.m.hcache
                /\ numberCache' = a.m.ncache
                /\ last' = [op |-> "Append", err |-> a.err, slice |-> EmptySlice, path |-> ""]
                /\ headermu' = 0
                /\ Return(t)
                /\ UNCHANGED << bcBlocks, chainFeed >>
           ELSE /\ LET m1 == WriteHeader(a.m, block)
                   IN  /\ headerDb' = m1.hdb
                       /\ numberDb' = m1.ndb
                       /\ headerCache' = m1.hcache
                       /\ numberCache' = m1.ncache
                /\ bcBlocks' = bcBlocks \cup { block }
                /\ chainFeed' = chainFeed + 1
                /\ Goto(t, IF Len(heads) = maxHeadsQueueLimit THEN "common" ELSE "push")
                /\ UNCHANGED << last, headermu, loc >>
    /\ UNCHANGED << config, procInterrupt, calls, canonical, headBlockHash, currentHeader, currentHeaderHash,
                    heads, crashed, running, headsHashes >>

\* Append, lines 182-185: commonHeader := hc.findCommonHeader(hc.heads[0])
AppendCommon(t) ==
    /\ ~crashed /\ pc[t] = "common"
    /\ LET fc == findCommonHeader(Mem, canonical, heads[1])
       IN  /\ headerCache' = fc.m.hcache
           /\ numberCache' = fc.m.ncache
           /\ IF fc.h = NilHeader
              THEN /\ last' = [op |-> "Append", err |-> "nil head", slice |-> EmptySlice,
                               path |-> ""]
                   /\ headermu' = 0
                   /\ Return(t)
              ELSE /\ loc' = [loc EXCEPT ![t].common = fc.h]
                   /\ Goto(t, "trim")
                   /\ UNCHANGED << last, headermu >>
    /\ UNCHANGED << config, procInterrupt, calls, headerDb, numberDb, canonical, headBlockHash, bcBlocks,
                    currentHeader, currentHeaderHash, heads, chainFeed, crashed, running,
                    headsHashes >>

\* Append, lines 186-193: hc.trim(commonHeader, hc.heads[0]) and the dequeue
AppendTrim(t) ==
    /\ ~crashed /\ pc[t] = "trim"
    /\ LET tr == trim(Mem, bcBlocks, loc[t].common, heads[1])
       IN  /\ headerDb' = tr.m.hdb
           /\ numberDb' = tr.m.ndb
           /\ headerCache' = tr.m.hcache
           /\ numberCache' = tr.m.ncache
           /\ bcBlocks' = tr.bc
           /\ crashed' = (tr.st = "panic")
           /\ heads' = IF tr.st = "panic" THEN heads ELSE Tail(heads)
    /\ Goto(t, "push")
    /\ UNCHANGED << config, procInterrupt, calls, canonical, headBlockHash, currentHeader, currentHeaderHash,
                    chainFeed, last, headermu, running, headsHashes, loc >>

\* Append, line 196: hc.heads = append(hc.heads, block.Header())
AppendPush(t) ==
    /\ ~crashed /\ pc[t] = "push"
    /\ heads' = Append(heads, loc[t].arg)
    /\ Goto(t, "sort")
    /\ UNCHANGED << config, procInterrupt, calls, headerDb, numberDb, canonical, headBlockHash, bcBlocks,
                    currentHeader, currentHeaderHash, headerCache, numberCache, chainFeed,
                    crashed, last, headermu, running, headsHashes, loc >>

\* Append, lines 199-203 and the deferred Unlock of line 146
AppendSort(t) ==
    /\ ~crashed /\ pc[t] = "sort"
    /\ heads' \in SortSlice(heads)
    /\ last' = [op |-> "Append", err |-> "nil", slice |-> EmptySlice, path |-> ""]
    /\ headermu' = 0
    /\ Return(t)
    /\ UNCHANGED << config, procInterrupt, calls, headerDb, numberDb, canonical, headBlockHash, bcBlocks,
                    currentHeader, currentHeaderHash, headerCache, numberCache, chainFeed,
                    crashed, running, headsHashes >>

\* Stop, line 423: the first caller goes on; no lock is taken
StopBegin(t) ==
    /\ ~crashed /\ pc[t] = "idle"
    /\ calls < MaxCalls
    /\ calls' = calls + 1
    /\ running = 0
    /\ running' = 1
    /\ Goto(t, "read")
    /\ UNCHANGED << config, procInterrupt, headerDb, numberDb, canonical, headBlockHash, bcBlocks,
                    currentHeader, currentHeaderHash, headerCache, numberCache, heads,
                    chainFeed, crashed, last, headermu, headsHashes, loc >>

\* Stop, lines 427-430: the hashes of hc.heads are collected
StopRead(t) ==
    /\ ~crashed /\ pc[t] = "read"
    /\ loc' = [loc EXCEPT ![t].hashes = heads]
    /\ Goto(t, "save")
    /\ UNCHANGED << config, procInterrupt, calls, headerDb, numberDb, canonical, headBlockHash, bcBlocks,
                    currentHeader, currentHeaderHash, headerCache, numberCache, heads,
                    chainFeed, crashed, last, headermu, running, headsHashes >>

\* Stop, lines 432-438: the heads hashes and the head block hash are saved and
\* insertion is stopped
StopSave(t) ==
    /\ ~crashed /\ pc[t] = "save"
    /\ headsHashes' = loc[t].hashes
    /\ headBlockHash' = currentHeader
    /\ procInterrupt' = 1
    /\ Return(t)
    /\ UNCHANGED << config, calls, headerDb, numberDb, canonical, bcBlocks, currentHeader,
                    currentHeaderHash, headerCache, numberCache, heads, chainFeed, crashed,
                    last, headermu, running >>

\* ------------------------------------------------------------------ queries
\* hc.GetHeader(hash, number): the header cache is keyed by the hash alone, the
\* store by hash and number
GetHeaderAt(m, hash, number) ==
    IF hash \in m.hcache THEN [h |-> hash, m |-> m]
    ELSE IF hash \in m.hdb /\ Number64(hash) = number
         THEN [h |-> hash, m |-> [m EXCEPT !.hcache = @ \cup {hash}]]
    ELSE [h |-> NilHeader, m |-> m]

\* What GetAncestor returns: the pair, *maxNonCanonical as the call leaves it,
\* and the caches.
Ancestry(hash, number, budget, m) ==
    [hash |-> hash, number |-> number, budget |-> budget, m |-> m]

\* A budget no step uses up: C13AncestorBudget tells it from Spend.
SpendNothing(budget) == budget

\* *maxNonCanonical--
Spend(budget) == budget - 1

RECURSIVE ancestorWalk(_, _, _, _, _, _)
\* hc.GetAncestor, the loop of lines 530-548
ancestorWalk(m, canon, hash, number, ancestor, budget) ==
    IF ancestor = 0 THEN Ancestry(hash, number, budget, m)
    ELSE IF ReadCanonicalHash(canon, number) = hash
         THEN Ancestry(ReadCanonicalHash(canon, number - ancestor), number - ancestor, budget, m)
    ELSE IF budget = 0 THEN Ancestry(ZeroHash, 0, budget, m)
    ELSE LET g == GetHeaderAt(m, hash, number)
         IN  IF g.h = NilHeader THEN Ancestry(ZeroHash, 0, Spend(budget), g.m)
             ELSE ancestorWalk(g.m, canon, Parent(g.h), number - 1, ancestor - 1,
                               Spend(budget))

\* hc.GetAncestor(hash, number, ancestor, maxNonCanonical)
GetAncestor(m, canon, hash, number, ancestor, budget) ==
    IF ancestor > number THEN Ancestry(ZeroHash, 0, budget, m)
    ELSE IF ancestor = 1
         THEN LET g == GetHeaderAt(m, hash, number)
              IN  IF g.h # NilHeader THEN Ancestry(Parent(g.h), number - 1, budget, g.m)
                  ELSE Ancestry(ZeroHash, 0, budget, g.m)
    ELSE ancestorWalk(m, canon, hash, number, ancestor, budget)

\* hc.GetAncestorByLocation(hash, location).  Line 557 returns the error when
\* the header is found; the loop of lines 560-568 is then entered with a nil
\* header only, and reading header.Location of it panics.
GetAncestorByLocation(m, hash, location) ==
    LET g == GetHeaderByHash(m, hash)
    IN  IF g.h # NilHeader
        THEN [h |-> NilHeader, err |-> "error finding header by hash", st |-> "ok", m |-> g.m]
        ELSE [h |-> NilHeader, err |-> "nil", st |-> "panic", m |-> g.m]

\* ------------------------------------------------------------------ readers
\* A caller's hc.GetHeaderByHash(hash): the lookup fills the caches.
ReadHeaderByHash(hash) ==
    /\ ~crashed
    /\ Cardinality(numberCache) < MaxReads
    /\ LET g == GetHeaderByHash(Mem, hash)
       IN  /\ g.m # Mem
           /\ headerCache' = g.m.hcache
           /\ numberCache' = g.m.ncache
    /\ UNCHANGED << config, procs, headerDb, numberDb, canonical, headBlockHash, bcBlocks,
                    currentHeader, currentHeaderHash, heads, chainFeed, crashed, last >>

\* ----------------------------------------------------------- specification
\* NewHeaderChain over a store that holds the genesis block only: the genesis
\* header is looked up by number (line 125, which caches it), loadLastState
\* looks the stored head, genesis, up by hash (line 403, which caches its
\* number), the registry is empty, and the current head is the genesis header.
InitChain ==
    /\ headerDb = { Genesis }
    /\ numberDb = { Genesis }
    /\ canonical = [n \in 0..MaxNumber |-> IF n = 0 THEN Genesis ELSE ZeroHash]
    /\ headBlockHash = Genesis
    /\ bcBlocks = { Genesis }
    /\ currentHeader = Genesis
    /\ currentHeaderHash = Genesis
    /\ headerCache = { Genesis }
    /\ numberCache = { Genesis }
    /\ heads = << >>
    /\ chainFeed = 0
    /\ crashed = FALSE
    /\ last = [op |-> "NewHeaderChain", err |-> "nil", slice |-> EmptySlice, path |-> ""]
    /\ headermu = 0
    /\ running = 0
    /\ procInterrupt = 0
    /\ headsHashes = << >>
    /\ pc = [t \in Threads |-> "idle"]
    /\ loc = [t \in Threads |-> NoLocals]
    /\ calls = 0

\* hc.config.GenesisHashes in context c: the genesis hashes of the three
\* contexts' chains, the node's own being its genesis header's.
GenesisHashesOf(c) == [k \in 0..2 |-> IF k = c THEN Genesis ELSE ForeignGenesis]

\* The node runs in any of the three contexts.
Init ==
    /\ feedCap = MaxEvents
    /\ ctx \in { PRIME, REGION, ZONE }
    /\ genesisHashes = GenesisHashesOf(ctx)
    /\ InitChain

\* The blocks a caller appends: those whose header the store does not hold.
\* A block whose parent is unknown is rejected by the verifier whatever the
\* collaborators would answer.
AppendInputs ==
    { bv \in (Hashes \ headerDb) \X Verdicts :
        GetHeader(Mem, Parent(bv[1])).h = NilHeader => bv[2] = "verify" }

Next ==
    \/ \E bv \in AppendInputs : AppendCall(bv[1], bv[2])
    \/ \E head \in headerDb, np \in BOOLEAN : SetCurrentHeader(head, np)
    \/ Reset
    \/ \E hash \in Hashes : ReadHeaderByHash(hash)

Spec == Init /\ [][Next]_vars

\* The PRIME node, its Appends all accepted, followed deeper.
InitDeep ==
    /\ feedCap = MaxEventsDeep
    /\ ctx = PRIME
    /\ genesisHashes = GenesisHashesOf(PRIME)
    /\ InitChain

NextDeep ==
    \/ \E block \in Hashes \ headerDb : AppendCall(block, "nil")
    \/ \E head \in headerDb, np \in BOOLEAN : SetCurrentHeader(head, np)

SpecDeep == InitDeep /\ [][NextDeep]_vars

\* The same caller, who also shuts the chain down at any moment.
NextStop ==
    \/ NextDeep
    \/ Reset
    \/ StopInsert
    \/ Stop

\* The PRIME node of the caller who shuts down.
InitStop ==
    /\ feedCap = MaxEvents
    /\ ctx = PRIME
    /\ genesisHashes = GenesisHashesOf(PRIME)
    /\ InitChain

SpecStop == InitStop /\ [][NextStop]_vars

\* The PRIME node, its calls made by concurrent goroutines.
InitConc ==
    /\ feedCap = MaxEventsConc
    /\ ctx = PRIME
    /\ genesisHashes = GenesisHashesOf(PRIME)
    /\ InitChain

NextConc ==
    \E t \in Threads :
        \/ \E head \in headerDb : SetHeadLoad(t, head)
        \/ SetHeadStore(t)
        \/ \E np \in BOOLEAN : SetHeadRepair(t, np)
        \/ \E block \in (1..MaxHashConc) \ headerDb : AppendLock(t, block)
        \/ AppendWrite(t)
        \/ AppendCommon(t)
        \/ AppendTrim(t)
        \/ AppendPush(t)
        \/ AppendSort(t)
        \/ StopBegin(t)
        \/ StopRead(t)
        \/ StopSave(t)

SpecConc == InitConc /\ [][NextConc]_vars

\* ------------------------------------------------------------------ claims
RECURSIVE AncestorAt(_, _)
\* The header at number n on the parent-linked path from genesis to h.
AncestorAt(h, n) == IF Number64(h) <= n THEN h ELSE AncestorAt(Parent(h), n)

\* The parent-linked path from genesis to h.
Branch(h) == { AncestorAt(h, n) : n \in 0..Number64(h) }

\* The height of the highest header the branches of a and b share.
CommonHeight(a, b) ==
    CHOOSE n \in 0..MaxNumber :
        /\ n <= Number64(a) /\ n <= Number64(b)
        /\ AncestorAt(a, n) = AncestorAt(b, n)
        /\ \A k \in (n + 1)..MaxNumber :
              k <= Number64(a) /\ k <= Number64(b) => AncestorAt(a, k) # AncestorAt(b, k)

\* The canonical mapping canon, walked from 0 to h's number, is the path to h.
CanonicalUpTo(canon, h) == \A n \in 0..Number64(h) : canon[n] = AncestorAt(h, n)

\* The canonical mapping is consistent with the current head, both branches
\* of a reorg to head are stored.
C1Pre(head) ==
    /\ CanonicalUpTo(canonical, currentHeader)
    /\ \A n \in (Number64(currentHeader) + 1)..MaxNumber : canonical[n] = ZeroHash
    /\ Branch(currentHeader) \cup Branch(head) \subseteq (headerDb \cap numberDb)

C1Post(head) ==
    LET H == CommonHeight(currentHeader, head)
    IN  /\ \A n \in (H + 1)..Number64(currentHeader) :
              canonical'[n] # AncestorAt(currentHeader, n)
        /\ \A n \in (H + 1)..Number64(head) : canonical'[n] = AncestorAt(head, n)
        /\ \A n \in 0..H : canonical'[n] = canonical[n]

\* C1: a SetCurrentHeader(head) that completes, called with the canonical
\* mapping consistent with the old head and both branches stored, leaves no
\* old-branch hash above the common height H, the new branch's hashes at every
\* number in (H, head's number], and the entries at or below H unchanged.
C1ReorgPostcondition ==
    [][\A head \in Hashes, np \in BOOLEAN :
          (C1Pre(head) /\ SetCurrentHeader(head, np) /\ ~crashed') => C1Post(head)]_vars

\* C2: after completed Append and SetCurrentHeader calls, the canonical mapping
\* walked from 0 to the current head's number is the parent-linked path from
\* genesis to the current head.
C2CanonicalInvariant == ~crashed => CanonicalUpTo(canonical, currentHeader)

\* The slots of the returned array that are set.
SlotsSet(slice) == { i \in 1..SliceLen : slice[i] # NilHeader }

\* C3: a SetCurrentHeader(head) called with head's parent the current head
\* writes the canonical entry at head's number and no other, makes head the
\* current head and its stored hash, and, outside the ZONE context, returns an
\* array with exactly one slot set, to head.
C3FastForward ==
    [][\A head \in Hashes, np \in BOOLEAN :
          (Parent(head) = currentHeader /\ SetCurrentHeader(head, np)) =>
              /\ ~crashed'
              /\ canonical' = [canonical EXCEPT ![Number64(head)] = head]
              /\ currentHeader' = head
              /\ currentHeaderHash' = head
              /\ ctx # ZONE => \E i \in 1..SliceLen :
                                   SlotsSet(last'.slice) = { i } /\ last'.slice[i] = head]_vars

\* A fast-forward has returned, in a context that records the slot.
C3Witness ==
    /\ last.op = "SetCurrentHeader" /\ last.path = "extend" /\ last.err = "nil"
    /\ ctx = REGION
    /\ Number64(currentHeader) = 2
    /\ canonical[2] = currentHeader
    /\ SlotsSet(last.slice) = { Location(currentHeader)[ctx + 1] }

\* C4: the canonical entry at number 0 holds the genesis hash and the genesis
\* header is in the store, whatever Appends, SetCurrentHeaders and Resets ran.
C4GenesisKept == canonical[0] = Genesis /\ Genesis \in headerDb

\* How often x occurs in the registry q.
Count(q, x) == Cardinality({ i \in DOMAIN q : q[i] = x })

\* The registry q at capacity loses a lowest-numbered entry and gains block.
EvictsLowest(q, r, block) ==
    \E i \in DOMAIN q :
        /\ \A j \in DOMAIN q : Number64(q[i]) <= Number64(q[j])
        /\ \A x \in Hashes :
              Count(r, x) = Count(q, x) - (IF x = q[i] THEN 1 ELSE 0)
                                        + (IF x = block THEN 1 ELSE 0)

\* C5: the registry never holds more than maxHeadsQueueLimit headers and is
\* sorted by ascending number; an Append that finds it at capacity and changes
\* it removes an entry of the lowest number.
C5HeadsRegistry ==
    /\ [](Len(heads) <= maxHeadsQueueLimit /\ SortedByNumber(heads))
    /\ [][\A bv \in Hashes \X Verdicts :
             (Len(heads) = maxHeadsQueueLimit /\ heads' # heads /\ AppendCall(bv[1], bv[2]))
                 => EvictsLowest(heads, heads', bv[1])]_vars

\* The third accepted Append has found the registry at capacity and evicted.
C5Witness ==
    /\ last.op = "Append" /\ last.err = "nil"
    /\ chainFeed = 3
    /\ Len(heads) = maxHeadsQueueLimit

\* C6: no Append deletes from the store the current head or a header on the
\* parent-linked path from genesis to the current head.
C6TrimSparesCanonical ==
    [][\A block \in Hashes :
          AppendCall(block, "nil") =>
              (Branch(currentHeader) \cap headerDb) \subseteq headerDb']_vars

\* C7: an Append whose body append fails returns that error with the header
\* and its number record absent from the store, the registry unchanged, no
\* event sent, and a GetHeaderByHash of the hash that then finds nothing.
C7BodyFailureCompensated ==
    [][\A block \in Hashes :
          (last'.err = "body" /\ AppendCall(block, "body")) =>
              /\ block \notin headerDb' /\ block \notin numberDb'
              /\ heads' = heads
              /\ chainFeed' = chainFeed
              /\ GetHeaderByHash(Mem', block).h = NilHeader]_vars

\* C8: an Append the verifier or the Appendable check rejects returns the
\* error and leaves the header store, the canonical mapping, the current head,
\* the registry and the event stream as they were.
C8RejectionFrame ==
    [][\A block \in Hashes, verdict \in { "verify", "appendable" } :
          (last'.err = verdict /\ AppendCall(block, verdict)) =>
              UNCHANGED << headerDb, numberDb, canonical, headBlockHash, currentHeader,
                           currentHeaderHash, heads, chainFeed, bcBlocks >>]_vars

\* An Append has been rejected by the Appendable check, on a chain that has
\* headers beyond genesis.
C8Witness ==
    /\ last.op = "Append" /\ last.err = "appendable"
    /\ Len(heads) > 0

\* Goroutine t is inside SetCurrentHeader, its head swap or its repair pending.
InSetHead(t) == pc[t] \in { "store", "repair" }

\* Goroutine t is inside Append's eviction: findCommonHeader, trim and dequeue.
InEviction(t) == pc[t] \in { "common", "trim" }

\* C9: every reorg and every mutation of the registry runs under hc.headermu:
\* no SetCurrentHeader call is under way while another one is, or while an
\* Append is in its eviction, and Stop does not read the registry between an
\* Append's writes of it.
C9LockSerialization ==
    \A t \in Threads :
        /\ InSetHead(t) => headermu = t
        /\ pc[t] \in { "trim", "push", "sort" } => headermu = t
        /\ \A u \in Threads \ { t } :
              /\ ~(InSetHead(t) /\ InSetHead(u))
              /\ ~(InSetHead(t) /\ InEviction(u))
              /\ ~(pc[t] = "read" /\ pc[u] = "sort")

RECURSIVE Linear(_)
\* The scenario's headers: genesis, A1, A2, A3, each the child of the one before.
Linear(k) == IF k = 0 THEN Genesis ELSE 2 * Linear(k - 1)

\* The scenario has come to A_k: it is the current head, and the canonical
\* mapping for 0..k is genesis, A1, .., A_k.
ScenarioAt(k) ==
    /\ currentHeader = Linear(k)
    /\ \A n \in 0..k : canonical[n] = Linear(n)

\* C10, as amended: from genesis as the current head, each successful Append
\* of the next header followed by SetCurrentHeader of it makes it the current
\* head, and the canonical mapping for 0..3 becomes genesis, A1, A2, A3.
C10AppendThenSetHead ==
    [][\A k \in 1..MaxNumber, np \in BOOLEAN :
          (ScenarioAt(k - 1) /\ Linear(k) \in headerDb /\ SetCurrentHeader(Linear(k), np))
              => (~crashed' /\ ScenarioAt(k)')]_vars

\* The scenario has run to A3.
C10Witness ==
    /\ ScenarioAt(3)
    /\ last.op = "SetCurrentHeader" /\ last.path = "extend"
    /\ chainFeed = 3

\* C10, as stated: a successful Append of a header that extends the current
\* head makes it the current head.
C10AppendSetsHead ==
    [][\A block \in Hashes :
          (Parent(block) = currentHeader /\ last'.err = "nil" /\ AppendCall(block, "nil"))
              => currentHeader' = block]_vars

\* C11: after an Append that returns nil, GetHeaderByHash of the block's hash
\* returns the appended header, whatever the caches hold.
C11AppendLookupRoundTrip ==
    [][\A block \in Hashes :
          (last'.err = "nil" /\ AppendCall(block, "nil")) =>
              GetHeaderByHash(Mem', block).h = block]_vars

\* The budgets a caller passes to GetAncestor.
Budgets == 0..MaxNumber

\* C12: in every state Append and SetCurrentHeader reach, for every stored
\* header and every distance d up to its number, GetAncestor with a budget of at
\* least d returns the hash and number reached by following parent links d
\* times.
C12AncestorByParentLinks ==
    \A hash \in headerDb : \A d \in 0..Number64(hash) : \A budget \in Budgets :
        budget >= d =>
            LET r == GetAncestor(Mem, canonical, hash, Number64(hash), d, budget)
            IN  /\ r.hash = AncestorAt(hash, Number64(hash) - d)
                /\ r.number = Number64(hash) - d

\* The distances a caller asks for: up to one more than any header's number.
Distances == 0..(MaxNumber + 1)

\* The lookup of the header `back` links behind hash finds it, in the header
\* cache or in the store.
FoundBack(hash, back) ==
    LET h == AncestorAt(hash, Number64(hash) - back)
    IN  h \in headerCache \/ h \in headerDb

\* The hash `back` links behind hash is the canonical one at its number.
CanonicalBack(hash, back) ==
    canonical[Number64(hash) - back] = AncestorAt(hash, Number64(hash) - back)

\* The number of links between hash and its nearest canonical ancestor, d when
\* none is nearer than d links.
NonCanonicalLinks(hash, d) ==
    IF \E j \in 0..(d - 1) : CanonicalBack(hash, j)
    THEN CHOOSE j \in 0..(d - 1) :
             CanonicalBack(hash, j) /\ \A i \in 0..(j - 1) : ~CanonicalBack(hash, i)
    ELSE d

\* The backward steps GetAncestor(hash, number, d, budget), d >= 2, takes from
\* non-canonical hashes, a step that finds no header included, and whether it
\* gives up.
BudgetedWalk(hash, d, budget) ==
    LET k == NonCanonicalLinks(hash, d)
        missing == { j \in 0..(k - 1) : ~FoundBack(hash, j) }
        tries == IF budget < k THEN budget ELSE k
    IN  IF \E j \in missing : j < tries
        THEN [steps |-> 1 + CHOOSE j \in missing : \A i \in missing : j <= i, zero |-> TRUE]
        ELSE [steps |-> tries, zero |-> budget < k]

\* C13: GetAncestor over a distance of two or more lowers the budget by one for
\* each backward step from a non-canonical hash and by nothing on the canonical
\* short-circuit; it returns the zero hash and 0 when the budget runs out before
\* the target, when the distance exceeds the number, and when a lookup on the
\* walk finds no header; the budget never goes below zero.
C13AncestorBudget ==
    \A hash \in Hashes : \A d \in Distances : \A budget \in Budgets :
        LET number == Number64(hash)
            r == GetAncestor(Mem, canonical, hash, number, d, budget)
            zero == r.hash = ZeroHash /\ r.number = 0
        IN  /\ r.budget >= 0
            /\ d > number => zero
            /\ d = 1 /\ d <= number /\ ~FoundBack(hash, 0) => zero
            /\ d >= 2 /\ d <= number =>
                  LET w == BudgetedWalk(hash, d, budget)
                  IN  /\ r.budget = budget - w.steps
                      /\ w.zero => zero

\* A stored header two links above a canonical header, asked for its ancestor
\* three links back with a budget of two: two steps paid, the rest
\* short-circuited through the canonical mapping.
C13Witness ==
    \E hash \in headerDb :
        /\ Number64(hash) = 3
        /\ NonCanonicalLinks(hash, 3) = 2
        /\ LET r == GetAncestor(Mem, canonical, hash, 3, 3, 2)
           IN  r.budget = 0 /\ r.hash = Genesis /\ r.number = 0
        /\ LET r == GetAncestor(Mem, canonical, hash, 3, 3, 1)
           IN  r.budget = 0 /\ r.hash = ZeroHash /\ r.number = 0

\* The headers of the Heads Registry.
Registered(q) == { q[i] : i \in 1..Len(q) }

\* C14: once StopInsert or Stop has run, insertStopped() stays true, and no
\* Append after it adds a header to the store or to the registry.
C14StoppedInsertion ==
    [][insertStopped =>
          /\ insertStopped'
          /\ headerDb' \subseteq headerDb
          /\ Registered(heads') \subseteq Registered(heads)]_vars

\* C15: after Reset returns, every header that was registered and every
\* non-genesis ancestor of it is gone from the store, and the Heads Registry is
\* empty.
C15ResetPurges ==
    [][(last'.op = "Reset" /\ last'.err = "nil" /\ Reset) =>
          /\ \A h \in Registered(heads) : (Branch(h) \ { Genesis }) \cap headerDb' = {}
          /\ heads' = << >>]_vars

\* The locations headers carry.
Locations == { Location(h) : h \in Hashes }

\* The first header on the parent-linked path back from h, h included, whose
\* location is location; NilHeader when the path holds none.
RECURSIVE FirstAt(_, _)
FirstAt(h, location) ==
    IF h = ZeroHash THEN NilHeader
    ELSE IF Location(h) = location THEN h
    ELSE FirstAt(Parent(h), location)

\* C16: for a stored header whose backward walk holds a header at the location
\* asked for, GetAncestorByLocation returns the first such header, and no error.
C16AncestorByLocation ==
    \A hash \in headerDb : \A location \in Locations :
        FirstAt(hash, location) # NilHeader =>
            LET r == GetAncestorByLocation(Mem, hash, location)
            IN  r.st = "ok" /\ r.err = "nil" /\ r.h = FirstAt(hash, location)

\* The numbers at which the canonical mapping holds the ancestor of header (or
\* header itself).
CanonicalNumbers(header) ==
    { k \in 0..Number64(header) : canonical[k] = AncestorAt(header, k) }

\* The highest of a non-empty set of numbers.
Highest(S) == CHOOSE k \in S : \A i \in S : i <= k

\* The numbers of the ancestors findCommonHeader(header) has to look up: those
\* between header and its highest canonical ancestor, all of them when none is
\* canonical.
NeededNumbers(header) ==
    LET low == IF CanonicalNumbers(header) = {} THEN 0
               ELSE Highest(CanonicalNumbers(header))
    IN  low..(Number64(header) - 1)

\* C17: findCommonHeader(header) returns the highest header on the backward walk
\* from header, header included, that the canonical mapping holds at its number
\* (genesis when no higher one is canonical), and returns nil only when an
\* ancestor the walk needs is missing from the store.
C17CommonHeader ==
    \A header \in Registered(heads) \cup headerDb :
        LET r == findCommonHeader(Mem, canonical, header)
        IN  /\ r.h # NilHeader =>
                  /\ CanonicalNumbers(header) # {}
                  /\ r.h = AncestorAt(header, Highest(CanonicalNumbers(header)))
            /\ r.h = NilHeader =>
                  \E k \in NeededNumbers(header) : AncestorAt(header, k) \notin headerDb

\* The headers trim(commonHeader, startHeader) visits and deletes: startHeader
\* and each ancestor above commonHeader that the parent lookups find, in the
\* header cache or the store, without a gap.
TrimPath(commonHeader, startHeader) ==
    { h \in Branch(startHeader) :
        /\ Number64(h) > Number64(commonHeader)
        /\ \A k \in Number64(h)..(Number64(startHeader) - 1) :
              LET a == AncestorAt(startHeader, k)
              IN  a \in headerCache \/ a \in headerDb }

\* C18: trim(commonHeader, startHeader), commonHeader on startHeader's path,
\* deletes the headers from startHeader down to but excluding commonHeader, has
\* bc.Trim discard the block of each, and deletes nothing else; trim(c, c)
\* deletes nothing; a walk that finds an ancestor missing stops there and the
\* call returns without error.
C18TrimDeletesPath ==
    \A startHeader \in Hashes : \A commonHeader \in Branch(startHeader) :
        LET r == trim(Mem, bcBlocks, commonHeader, startHeader)
            path == TrimPath(commonHeader, startHeader)
        IN  /\ r.st = "ok"
            /\ r.m.hdb = headerDb \ path
            /\ r.m.ndb = numberDb \ path
            /\ r.bc = bcBlocks \ path

\* A registered head two stored headers above its canonical common header:
\* trimming it deletes both and nothing else.
C18Witness ==
    \E startHeader \in Registered(heads) :
        LET commonHeader == AncestorAt(startHeader, Number64(startHeader) - 2)
            r == trim(Mem, bcBlocks, commonHeader, startHeader)
        IN  /\ Number64(startHeader) >= 2
            /\ { startHeader, Parent(startHeader), commonHeader } \subseteq headerDb
            /\ canonical[Number64(commonHeader)] = commonHeader
            /\ Cardinality(headerDb) > 3
            /\ r.m.hdb = headerDb \ { startHeader, Parent(startHeader) }
            /\ r.bc = bcBlocks \ { startHeader, Parent(startHeader) }

\* C19: a SetCurrentHeader(newHead) sets the current-head cell, its duplicated
\* hash and the persisted head-block hash to newHead before it deletes or writes
\* a canonical entry (the canonical mapping changes only in the repair that
\* follows the store), and once its first mapping change is visible the current
\* head is no longer the head the call replaced.
C19HeadBeforeMapping ==
    [][\A t \in Threads :
          /\ (pc[t] # "repair" /\ pc'[t] = "repair") =>
                /\ pc[t] = "store"
                /\ canonical' = canonical
                /\ currentHeader' = loc[t].arg
                /\ currentHeaderHash' = loc[t].arg
                /\ headBlockHash' = loc[t].arg
          /\ (pc[t] = "repair" /\ pc'[t] = "idle" /\ canonical' # canonical
                /\ loc[t].prev # loc[t].arg) =>
                currentHeader' # loc[t].prev]_vars

\* A SetCurrentHeader whose repair r met a missing header: findCommonHeader
\* found no common header, or a parent lookup of one of the walks returned nil
\* (the cursor, or the hash stack's entry, is nil from then on).
MissingSeen(head, r) ==
    /\ r.path = "reorg"
    /\ \/ findCommonHeader(Mem, canonical, head).h = NilHeader
       \/ r.prev = NilHeader
       \/ r.new = NilHeader
       \/ \E i \in 1..Len(r.stack) : r.stack[i] = NilHeader

\* C20: a SetCurrentHeader that meets a missing header (the parent of the
\* header a walk visits is not found, or findCommonHeader finds no common
\* header) halts the walk and returns normally, a nil error and no crash, even
\* where calling Hash() on a nil header is harmless.
C20MissingAncestorHalts ==
    [][\A head \in headerDb :
          (last'.op = "SetCurrentHeader" /\ SetCurrentHeader(head, FALSE)) =>
              LET r == repair(Mem, canonical, currentHeader, head, FALSE)
              IN  MissingSeen(head, r) => r.st = "ok" /\ last'.err = "nil"]_vars

\* C21: the first Stop writes the hashes of the registry's entries and the
\* current head's hash to the store, and a HeaderChain constructed over that
\* store has the same current head and the same registry, entry for entry, none
\* of them nil.
C21StopThenReload ==
    [][(running = 0 /\ running' = 1 /\ Stop) =>
          /\ headsHashes' = heads
          /\ headBlockHash' = currentHeader
          /\ LET n == NewHeaderChain(headerDb', numberDb', canonical', headBlockHash',
                                     headsHashes')
             IN  /\ n.st = "ok"
                 /\ n.currentHeader = currentHeader
                 /\ n.heads = heads
                 /\ NilHeader \notin Registered(n.heads)]_vars

\* C22: in every reachable state a hash held by the header cache or by the
\* number cache has its header in the store, so that GetHeader, GetHeaderByHash
\* and HasHeader report a deleted header as absent.
C22CacheCoherence ==
    /\ headerCache \subseteq headerDb
    /\ numberCache \subseteq numberDb
    /\ \A hash \in Hashes \ headerDb :
          /\ GetHeader(Mem, hash).h = NilHeader
          /\ GetHeaderByHash(Mem, hash).h = NilHeader
          /\ ~HasHeader(Mem, hash)

\* The canonical mapping is the parent-linked path from genesis to the current
\* head and holds nothing above it, and head is on that path.
RollbackPre(head) ==
    /\ canonical[Number64(head)] = head
    /\ head \in Branch(currentHeader)
    /\ CanonicalUpTo(canonical, currentHeader)
    /\ \A n \in (Number64(currentHeader) + 1)..MaxNumber : canonical[n] = ZeroHash

\* The canonical mapping canon cut back to head: nothing above head's number,
\* the entries at and below it as they are.
CutBack(canon, head) ==
    [n \in 0..MaxNumber |-> IF n > Number64(head) THEN ZeroHash ELSE canon[n]]

\* C23: SetCurrentHeader(h) with h canonical and at or below the current head of
\* a consistent canonical chain deletes every canonical entry above h's number,
\* leaves those at and below it, and makes h the current head; with h the
\* current head the mapping is left as it is.
C23RollbackFrame ==
    [][\A head \in headerDb, np \in BOOLEAN :
          (last'.op = "SetCurrentHeader" /\ RollbackPre(head)
              /\ SetCurrentHeader(head, np)) =>
              /\ last'.err = "nil"
              /\ currentHeader' = head
              /\ canonical' = CutBack(canonical, head)
              /\ head = currentHeader => canonical' = canonical]_vars

\* A consistent chain two headers above a canonical header: setting the head
\* back to it deletes the two entries above and nothing else.
C23Witness ==
    \E head \in headerDb :
        /\ RollbackPre(head)
        /\ Number64(currentHeader) = Number64(head) + 2
        /\ LET r == repair(Mem, canonical, currentHeader, head, FALSE)
           IN  /\ r.st = "ok"
               /\ r.canon # canonical
               /\ r.canon = CutBack(canonical, head)

\* C24: when Append returns nil the block's header is in the store and in the
\* Heads Registry; when it returns an error the header is not in the store, no
\* chain event was sent for it and the registry is as it was.
C24AppendAllOrNothing ==
    [][\A bv \in AppendInputs :
          (last'.op = "Append" /\ AppendCall(bv[1], bv[2])) =>
              IF last'.err = "nil"
              THEN bv[1] \in headerDb' /\ bv[1] \in Registered(heads')
              ELSE /\ bv[1] \notin headerDb'
                   /\ chainFeed' = chainFeed
                   /\ heads' = heads]_vars

====
